---- MODULE Spec2Model ----
(***************************************************************************)
(* The advantisui synchronisation engine: installComponent, checkForUpdates,*)
(* updateComponents and handleUpdateCommand, as state machines over the     *)
(* output directory (component files, backup files, the metadata document) *)
(* and the registry.                                                       *)
(*                                                                         *)
(* The repository ships the engine three times.  The variable `build`     *)
(* fixes which one a behaviour runs:                                       *)
(*   "index"    src/src/cli/index.ts (lines 1-485, the monolithic CLI)     *)
(*   "utils"    src/src/cli/utils.ts (installer of lines 155-180 and the   *)
(*              update module of lines 182-379)                            *)
(*   "packages" src/packages/cli/src/index.ts, whose installer is          *)
(*              src/unnamed/part_004 and whose update module is the one of *)
(*              src/src/cli/utils.ts lines 182-379                         *)
(*                                                                         *)
(* Fault model.  A registry fetch may fail on every request.  Inside       *)
(* updateComponents one step of a component's try block may throw (copy of *)
(* a missing file, fetch, stream close, hashing, unlink of the backup);    *)
(* the calls of the catch block itself succeed whenever the files they     *)
(* name exist.  The user and the registry owner act only while no engine   *)
(* code runs: between commands and while a prompt is open.                 *)
(***************************************************************************)
EXTENDS Integers, Sequences, FiniteSets, TLC

VARIABLES
    build,          \* which of the three shipped engines runs
    relations,      \* the componentRelations table the engine was built with
    registry,       \* component -> content served by GITHUB_BASE, NoFile if 404
    files,          \* component -> content of <outDir>/<name>.tsx, NoFile if absent
    backups,        \* component -> content of <outDir>/<name>.tsx.backup
    metadataFile,   \* parsed content of <outDir>/.advantisui-metadata.json
    document,       \* what kind of text that file holds, see Documents below
    charset,        \* whether the component sources hold multi-byte characters
    nodeModules,    \* the packages resolvable from the consumer's project
    now,            \* the clock read by new Date()
    envSteps,       \* user / registry actions taken so far
    pc,             \* position of the running command
    command,        \* the command that runs: "add", "update" or "none"
    metadata,       \* the in-memory store of the running check / update call
    results,        \* checkForUpdates: the Classification Results so far
    todo,           \* checkForUpdates: the files of the pass
    toUpdate,       \* updateComponents: componentsToUpdate, <<>> while it does not run
    idx,            \* loop position in todo
    updateChoice,   \* answer to the update prompt
    updatedCount,
    failedCount,
    queue,          \* add: requested components not yet started
    stack,          \* add: the installComponent call stack
    installed,      \* add: the shared `installed` set of the current call tree
    pending,        \* add: the store loaded by the top installComponent frame
    observed,       \* history: component -> digests seen when it was classified
    trail,          \* history: component -> what happened to it in this command
    pre,            \* history: files and store when the current call started
    lastFetch,      \* history: outcome of the installer fetch made by the last step
    fetches,        \* history: the names downloadComponent was called for, in
                    \* order, by the current installComponent call tree
    writes,         \* history: saveMetadata calls made by the running
                    \* checkForUpdates / updateComponents call
    interrupted,    \* history: the components an update run was killed on
    reported,       \* history: the declared list the dependency filter was
                    \* last applied to on its own, and what it reported
    everOk          \* history: names installed or updated successfully so far

vars == <<build, relations, registry, files, backups, metadataFile, document, charset,
          nodeModules, writes, interrupted, reported, now, envSteps, pc,
          command, metadata, results, todo, toUpdate, idx, updateChoice, updatedCount,
          failedCount, queue, stack, installed, pending, observed, trail, pre, lastFetch,
          fetches, everOk>>

----------------------------------------------------------------------------
(* Bounds of the model *)

MaxContent == 3     \* distinct file contents
MaxEvents == 4      \* commands run plus user / registry actions, in one behaviour
MaxDepth == 5       \* nested installComponent calls the call stack has room for
MaxDeclared == 2    \* Package Dependencies one component declares

----------------------------------------------------------------------------
(* Data *)

Builds == {"index", "utils", "packages"}

\* The component names of the model: a component with a Package Dependency
\* and one that requires it (componentRelations.dropdown).
Components == {"button", "dropdown"}

\* fs.readdirSync lists the directory in name order.
readdirOrder == <<"button", "dropdown">>

NoFile == 0
Contents == 1..MaxContent

\* `undefined` for a field of a Metadata Record.
Undefined == 0

\* crypto.createHash("sha256").update(content).digest("hex"): injective on
\* the contents of the model, and never a content itself.
sha256(content) == 16 * content + 9

\* fetchFileHash: `data += chunk` decodes every chunk of the response on
\* its own, where hashFile decodes the whole file.  `split` says that a
\* chunk ends inside a multi-byte character: its halves decode to U+FFFD,
\* and the digest is that of another text.
fetchedDigest(content, split) ==
    IF split THEN 16 * content + 10 ELSE sha256(content)

componentRelations(name) ==
    IF name = "dropdown" THEN <<"button">> ELSE <<>>

\* A declared Package Dependency: the identifier as written in the table,
\* the package it names, and whether the identifier starts with "@".
slotPinned == [id |-> "@radix-ui/react-slot@^1.2.3",
               package |-> "@radix-ui/react-slot", scoped |-> TRUE]
slot == [id |-> "@radix-ui/react-slot",
         package |-> "@radix-ui/react-slot", scoped |-> TRUE]
cva == [id |-> "class-variance-authority",
        package |-> "class-variance-authority", scoped |-> FALSE]
cvaPinned == [id |-> "class-variance-authority@^0.7.1",
              package |-> "class-variance-authority", scoped |-> FALSE]
Identifiers == {slotPinned, slot, cva, cvaPinned}
Packages == {dep.package : dep \in Identifiers}
NoReport == [declared |-> <<>>, missing |-> <<>>]

componentDependencies(name) ==
    IF name = "button" THEN <<slotPinned>> ELSE <<>>

NoStore == [c \in {} |-> 0]

Record(h, i, l) == [hash |-> h, installedAt |-> i, lastChecked |-> l]

\* Mutant: the store is rebuilt from the one record that is written.
Upsert_fresh(m, name, rec) == [c \in {name} |-> rec]

\* metadata[name] = rec
Upsert(m, name, rec) ==
    [c \in DOMAIN m \cup {name} |-> IF c = name THEN rec ELSE m[c]]

\* metadata[name]?.hash and metadata[name]?.installedAt
storedHashOf(m, name) == IF name \in DOMAIN m THEN m[name].hash ELSE Undefined
installedAtOf(m, name) ==
    IF name \in DOMAIN m THEN m[name].installedAt ELSE Undefined

\* The kinds of text <outDir>/.advantisui-metadata.json can hold: a
\* name-to-record mapping (or no file at all), text that JSON.parse
\* rejects, the text "null", and a JSON array.  metadataFile is the
\* mapping, and is empty for the other kinds.
Documents == {"mapping", "garbage", "null", "array"}

\* Mutant: every load starts from an empty store.
loadMetadata_empty == NoStore

\* if (!fs.existsSync(p)) return {}; try { return JSON.parse(...) } catch
\* { return {} }: the mapping, {} for no file and for rejected text.  For
\* the text "null" JSON.parse returns null, and for an array the array,
\* which has no record under any name.
loadMetadata == IF document = "mapping" THEN metadataFile ELSE NoStore

\* metadata[name], read or assigned, throws a TypeError when metadata is null.
storeThrows == document = "null"

\* saveMetadata(outDir, m): JSON.stringify writes "null" for null, and of
\* an array its elements only, without the records assigned as properties.
saveMetadata(m) == IF document \in {"null", "array"} THEN metadataFile ELSE m
savedKind == IF document \in {"null", "array"} THEN document ELSE "mapping"

NoTrail == [stage |-> "none", fetched |-> NoFile]
NoObserved == <<>>

----------------------------------------------------------------------------
(* Initial state: an empty output directory and a registry that serves     *)
(* every component.  Every other state is reached by the commands and by   *)
(* the user's and the registry owner's actions below.                      *)

NoFiles == [c \in Components |-> NoFile]
NoPre == [files |-> NoFiles, store |-> NoStore, request |-> <<>>]
NoFetch == [name |-> "", outcome |-> "none"]

Directory(cs) ==
    /\ build \in Builds
    /\ relations = [c \in Components |-> componentRelations(c)]
    /\ registry = [c \in Components |-> 1]
    /\ files = NoFiles
    /\ backups = NoFiles
    /\ metadataFile = NoStore
    /\ now = 0
    /\ envSteps = 0
    /\ pc = "idle"
    /\ command = "none"
    /\ metadata = NoStore
    /\ results = <<>>
    /\ todo = <<>>
    /\ toUpdate = <<>>
    /\ idx = 0
    /\ updateChoice = "none"
    /\ updatedCount = 0
    /\ failedCount = 0
    /\ queue = <<>>
    /\ stack = <<>>
    /\ installed = {}
    /\ pending = NoStore
    /\ observed = [c \in Components |-> NoObserved]
    /\ trail = [c \in Components |-> NoTrail]
    /\ pre = NoPre
    /\ lastFetch = NoFetch
    /\ fetches = <<>>
    /\ everOk = {}
    /\ document = "mapping"
    /\ charset = cs
    /\ nodeModules = {}
    /\ writes = 0
    /\ interrupted = {}
    /\ reported = NoReport

\* The component sources of the shipped registry are ASCII text.
Init == Directory("ascii")

engineVars == <<command, metadata, results, todo, toUpdate, idx, updateChoice, updatedCount,
                failedCount, queue, stack, installed, pending>>
historyVars == <<observed, trail, pre, lastFetch, fetches, everOk, writes, interrupted,
                 reported>>

----------------------------------------------------------------------------
(* The environment: the registry owner publishes or removes a component,   *)
(* the user edits, creates or deletes a component file by hand.            *)

MayStart == pc = "idle" /\ now + envSteps < MaxEvents

\* They act between commands and while the update prompt is open; what they
\* do after the last command no command observes.
EnvMayAct ==
    \/ pc = "idle" /\ now + envSteps + 1 < MaxEvents
    \/ pc = "prompt" /\ now + envSteps < MaxEvents

\* Contents are opaque, only their equality is read: a content that is new
\* to the directory, the registry and the store is the least unused number.
known ==
    {registry[c] : c \in Components} \cup {files[c] : c \in Components}
        \cup {backups[c] : c \in Components}
        \cup {x \in Contents : \E c \in DOMAIN metadataFile :
                                  metadataFile[c].hash = sha256(x)}
fresh ==
    {x \in Contents : x \notin known /\ \A y \in Contents \ known : x <= y}
available == (known \cap Contents) \cup fresh \cup {NoFile}

Publish(c, x) ==
    /\ EnvMayAct
    /\ x \in available
    /\ x # registry[c]
    /\ registry' = [registry EXCEPT ![c] = x]
    /\ envSteps' = envSteps + 1
    /\ lastFetch' = NoFetch
    /\ UNCHANGED <<build, relations, document, charset, interrupted, nodeModules, reported, writes, fetches, files, backups, metadataFile, now, pc, engineVars,
                   observed, trail, pre, everOk>>

UserEdit(c, x) ==
    /\ EnvMayAct
    /\ x \in available
    /\ x # files[c]
    /\ files' = [files EXCEPT ![c] = x]
    /\ envSteps' = envSteps + 1
    /\ lastFetch' = NoFetch
    /\ UNCHANGED <<build, relations, document, charset, interrupted, nodeModules, reported, writes, fetches, registry, backups, metadataFile, now, pc, engineVars,
                   observed, trail, pre, everOk>>

----------------------------------------------------------------------------
(* checkForUpdates *)

usesUpdateModule == build \in {"utils", "packages"}

\* src/cli/utils.ts: the status pushed for one file.
classify_utils(currentHash, storedHash, remoteHash) ==
    LET isDifferentFromRemote == currentHash # remoteHash
    IN  IF ~isDifferentFromRemote THEN "up-to-date"
        ELSE IF storedHash # Undefined
             THEN IF storedHash # remoteHash THEN "outdated" ELSE "modified"
             ELSE "outdated"

\* src/cli/index.ts: the status pushed for one file.
classify_index(currentHash, storedHash, remoteHash) ==
    LET wasModifiedLocally == storedHash # Undefined /\ storedHash # currentHash
    IN  IF currentHash = remoteHash THEN "up-to-date"
        ELSE IF wasModifiedLocally THEN "modified"
        ELSE "outdated"

classify(currentHash, storedHash, remoteHash) ==
    IF usesUpdateModule
    THEN classify_utils(currentHash, storedHash, remoteHash)
    ELSE classify_index(currentHash, storedHash, remoteHash)

\* Mutant: the record is replaced without the spread of the old one.
refreshHash_reset(m, name, currentHash) ==
    Upsert(m, name, Record(currentHash, Undefined, Undefined))

\* src/cli/utils.ts: metadata[name] = { ...metadata[name], hash: currentHash }
\* for an up-to-date file whose stored hash differs.  The index.ts engine has
\* no such statement.
refreshHash(m, name, currentHash) ==
    IF usesUpdateModule /\ currentHash # storedHashOf(m, name)
    THEN Upsert(m, name,
                IF name \in DOMAIN m
                THEN [m[name] EXCEPT !.hash = currentHash]
                ELSE Record(currentHash, Undefined, Undefined))
    ELSE m

\* Mutant: the check leaves lastChecked alone.
touchLastChecked_never(m, name) == m

\* if (metadata[name]) metadata[name].lastChecked = new Date()
touchLastChecked(m, name) ==
    IF name \in DOMAIN m THEN [m EXCEPT ![name].lastChecked = now] ELSE m

\* fs.readdirSync(outDir).filter(f => f.endsWith(".tsx") && ...)
localFiles == SelectSeq(readdirOrder, LAMBDA c : files[c] # NoFile)

componentsWith(res, status) ==
    LET hits == SelectSeq(res, LAMBDA r : r.status = status)
    IN  [i \in 1..Len(hits) |-> hits[i].component]

\* Mutant: the prompt offers every classified component.
offered_all(res) == [i \in 1..Len(res) |-> res[i].component]

\* handleUpdateCommand: the components offered by the prompt, in the order
\* of the "all" choice.
offered(res) ==
    IF usesUpdateModule
    THEN componentsWith(res, "outdated") \o componentsWith(res, "modified")
    ELSE componentsWith(res, "outdated")

\* What handleUpdateCommand does with the results: return, or prompt.
afterCheck(res) ==
    IF Len(res) = 0 \/ Len(offered(res)) = 0 THEN "done" ELSE "prompt"

\* handleUpdateCommand up to the first fetch of checkForUpdates.
UpdateCommand ==
    /\ MayStart
    /\ now' = now + 1
    /\ command' = "update"
    /\ metadata' = loadMetadata
    /\ results' = <<>>
    /\ todo' = localFiles
    /\ idx' = 1
    /\ pc' = IF Len(localFiles) = 0 THEN "done" ELSE "check"
    /\ writes' = 0
    /\ pre' = [files |-> files, store |-> metadataFile, request |-> <<>>]
    /\ lastFetch' = NoFetch
    /\ UNCHANGED <<build, relations, document, charset, interrupted, nodeModules, reported, fetches, toUpdate, registry, files, backups, metadataFile, envSteps,
                   updateChoice, updatedCount, failedCount, queue, stack,
                   installed, pending, observed, trail, everOk>>

\* Mutant: a file whose remote digest is missing is classified all the same.
pushResult_always(res, name, status, skip) ==
    Append(res, [component |-> name, status |-> status])

\* results.push({ component, status }), which the `continue` after a missing
\* remote digest and the catch block of the iteration skip.
pushResult(res, name, status, skip) ==
    IF skip THEN res ELSE Append(res, [component |-> name, status |-> status])

\* Mutant: reading the file empties it.
readFileSync_truncating(f, name) == [f EXCEPT ![name] = NoFile]

\* hashFile(filePath): fs.readFileSync(filePath, "utf8"), the one file
\* system call of the loop of checkForUpdates on a component file.  It
\* leaves the directory as it is.
readFileSync(f, name) == f

\* Mutant: saveMetadata inside the loop, after every iteration.
savesAfter_each(i, list) == TRUE

\* saveMetadata(outDir, metadata) stands after the loop of checkForUpdates
\* and of updateComponents: it runs once the last iteration is over.
savesAfter(i, list) == i = Len(list)

\* One iteration of the loop of checkForUpdates; the last one also runs
\* saveMetadata and handleUpdateCommand up to its prompt.
CheckFile(fetched, split) ==
    /\ pc = "check"
    /\ idx <= Len(todo)
    /\ LET name == todo[idx]
           threw == files[name] = NoFile
           currentHash == sha256(files[name])
           remoteHash == IF fetched /\ registry[name] # NoFile
                         THEN fetchedDigest(registry[name], split) ELSE Undefined
           storedHash == storedHashOf(metadata, name)
           skip == threw \/ remoteHash = Undefined \/ storeThrows
           status == classify(currentHash, storedHash, remoteHash)
           m1 == IF status = "up-to-date"
                 THEN refreshHash(metadata, name, currentHash) ELSE metadata
           m2 == IF skip THEN metadata ELSE touchLastChecked(m1, name)
           res == pushResult(results, name, status, skip)
           last == idx = Len(todo)
       IN  /\ fetched \in (IF registry[name] = NoFile THEN {FALSE} ELSE BOOLEAN)
           /\ split \in (IF fetched /\ charset = "multibyte" THEN BOOLEAN
                         ELSE {FALSE})
           /\ metadata' = m2
           /\ files' = readFileSync(files, name)
           /\ results' = res
           /\ observed' = IF skip THEN observed
                          ELSE [observed EXCEPT
                                  ![name] = <<currentHash, storedHash, remoteHash>>]
           /\ idx' = idx + 1
           /\ metadataFile' = IF savesAfter(idx, todo) THEN saveMetadata(m2)
                              ELSE metadataFile
           /\ document' = IF savesAfter(idx, todo) THEN savedKind ELSE document
           /\ writes' = IF savesAfter(idx, todo) THEN writes + 1 ELSE writes
           /\ pc' = IF last THEN afterCheck(res) ELSE "check"
           /\ trail' = IF threw \/ remoteHash = Undefined
                        THEN [trail EXCEPT ![name] = [stage |-> "skipped",
                                                      fetched |-> NoFile]]
                        ELSE IF storeThrows
                        THEN [trail EXCEPT ![name] = [stage |-> "check-store",
                                                      fetched |-> NoFile]]
                        ELSE trail
    /\ lastFetch' = NoFetch
    /\ UNCHANGED <<build, relations, charset, interrupted, nodeModules, reported, fetches, registry, backups, now, envSteps, command, todo, toUpdate,
                   updateChoice, updatedCount, failedCount, queue, stack,
                   installed, pending, pre, everOk>>

----------------------------------------------------------------------------
(* handleUpdateCommand: the prompt *)

\* The checkbox answer lists the ticked components in the order offered.
ticked(choices, S) == SelectSeq(choices, LAMBDA c : c \in S)

\* componentsToUpdate for the answer `choice` (and the ticked set S).
componentsToUpdate(choice, S) ==
    IF choice = "all" THEN offered(results) ELSE ticked(offered(results), S)

\* The answer to the prompt, and the entry of updateComponents: it loads the
\* store again and starts its loop.
Prompt(choice, S) ==
    /\ pc = "prompt"
    /\ choice \in {"all", "select", "none"}
    /\ S \in (IF choice = "select"
              THEN SUBSET {offered(results)[i] : i \in 1..Len(offered(results))}
              ELSE {{}})
    /\ updateChoice' = choice
    /\ IF choice = "none" \/ Len(componentsToUpdate(choice, S)) = 0
       THEN /\ pc' = "done"
            /\ UNCHANGED <<metadata, toUpdate, idx, pre, writes>>
       ELSE /\ pc' = "update"
            /\ metadata' = loadMetadata
            /\ toUpdate' = componentsToUpdate(choice, S)
            /\ idx' = 1
            /\ writes' = 0
            /\ pre' = [files |-> files, store |-> metadataFile, request |-> <<>>]
    /\ lastFetch' = NoFetch
    /\ UNCHANGED <<build, relations, document, charset, interrupted, nodeModules, reported, fetches, registry, files, backups, metadataFile, now, envSteps, command,
                   results, todo, updatedCount, failedCount, queue, stack, installed,
                   pending, observed, trail, everOk>>

----------------------------------------------------------------------------
(* updateComponents *)

\* Mutant: the catch block without the copy back.
restoreBackup_skipped(f, b, name) == f

\* The catch block: fs.copyFileSync(backupPath, filePath) if the backup exists.
restoreBackup(f, b, name) ==
    IF b[name] # NoFile THEN [f EXCEPT ![name] = b[name]] ELSE f

\* Mutant: the backup is never removed.
unlinkBackup_kept(b, name) == b

\* fs.unlinkSync(backupPath), of the try block and of the catch block.
unlinkBackup(b, name) == [b EXCEPT ![name] = NoFile]

\* Mutant: the update resets installedAt.
updatedRecord_reset(m, name, h) == Record(h, now, now)

\* The record written for an updated component.
updatedRecord(m, name, h) ==
    Record(h,
           IF installedAtOf(m, name) # Undefined THEN installedAtOf(m, name) ELSE now,
           now)

\* Mutant: a failure is not counted.
countFailed_dropped(n) == n

\* failedCount++ of the catch block, updatedCount++ of the try block.
countFailed(n) == n + 1
countUpdated(n) == n + 1

\* The outcomes of downloadComponent: the file is written and the promise
\* resolves ("ok"); the request fails or the status is not 200, before the
\* file is opened ("reject"); the file is written and closing it fails
\* ("closeErr").
downloadOutcomes(name) ==
    IF registry[name] = NoFile THEN {"reject"} ELSE {"ok", "reject", "closeErr"}

\* Mutant: the download writes every file the registry has.
downloaded_everywhere(f, name, outcome) ==
    IF outcome \in {"ok", "closeErr"}
    THEN [c \in Components |-> IF registry[c] # NoFile THEN registry[c] ELSE f[c]]
    ELSE f

\* The file after downloadComponent(name, filePath) ended with `outcome`.
downloaded(f, name, outcome) ==
    IF outcome \in {"ok", "closeErr"} THEN [f EXCEPT ![name] = registry[name]] ELSE f

\* Mutant: the copy to the backup path returns for a missing file too.
copyReturns_always(f, name) == TRUE

\* fs.copyFileSync(filePath, backupPath) returns, rather than throws, when
\* the file exists.
copyReturns(f, name) == f[name] # NoFile

\* One iteration of the loop of updateComponents.  fs.copyFileSync(filePath,
\* backupPath) throws when the file is missing; otherwise downloadComponent
\* ends with `outcome`, and `fault` is the statement of the try block that
\* throws after a download that resolved: hashFile, or the unlink of the
\* backup (the record is assigned by then).  Whatever throws, the catch block
\* runs.  The last iteration is followed by saveMetadata and the summary.
UpdateOne(outcome, fault) ==
    /\ pc = "update"
    /\ idx <= Len(toUpdate)
    /\ LET name == toUpdate[idx]
           copied == copyReturns(files, name)
           saved == IF copied THEN [backups EXCEPT ![name] = files[name]] ELSE backups
           written == IF copied THEN downloaded(files, name, outcome) ELSE files
           assigned == /\ copied /\ outcome = "ok" /\ fault \in {"none", "unlink"}
                       /\ ~storeThrows
           succeeded == copied /\ outcome = "ok" /\ fault = "none" /\ ~storeThrows
           stage == IF succeeded THEN "updated"
                    ELSE IF ~copied THEN "copy"
                    ELSE IF outcome = "reject" THEN "fetch"
                    ELSE IF outcome = "closeErr" THEN "close"
                    ELSE IF fault = "hash" THEN fault
                    ELSE IF storeThrows THEN "update-store"
                    ELSE fault
           m == IF assigned
                THEN Upsert(metadata, name,
                            updatedRecord(metadata, name, sha256(written[name])))
                ELSE metadata
           last == idx = Len(toUpdate)
       IN  /\ outcome \in (IF copied THEN downloadOutcomes(name) ELSE {"reject"})
           /\ fault \in (IF copied /\ outcome = "ok"
                         THEN {"none", "hash", "unlink"} ELSE {"none"})
           /\ metadata' = m
           /\ files' = IF succeeded THEN written
                       ELSE restoreBackup(written, saved, name)
           /\ backups' = unlinkBackup(saved, name)
           /\ updatedCount' = IF succeeded THEN countUpdated(updatedCount)
                              ELSE updatedCount
           /\ failedCount' = IF succeeded THEN failedCount
                             ELSE countFailed(failedCount)
           /\ trail' = [trail EXCEPT
                          ![name] = [stage |-> stage,
                                     fetched |-> IF copied /\ outcome # "reject"
                                                 THEN registry[name] ELSE NoFile]]
           /\ everOk' = IF succeeded THEN everOk \cup {name} ELSE everOk
           /\ metadataFile' = IF savesAfter(idx, toUpdate) THEN saveMetadata(m)
                              ELSE metadataFile
           /\ document' = IF savesAfter(idx, toUpdate) THEN savedKind ELSE document
           /\ writes' = IF savesAfter(idx, toUpdate) THEN writes + 1 ELSE writes
           /\ pc' = IF last THEN "done" ELSE "update"
    /\ idx' = idx + 1
    /\ lastFetch' = NoFetch
    /\ UNCHANGED <<build, relations, charset, interrupted, nodeModules, reported, fetches, registry, now, envSteps, command, results, todo, toUpdate,
                   updateChoice, queue, stack, installed, pending, observed, pre>>

\* The command returns; the next one starts from a fresh process.
Exit ==
    /\ pc \in {"done", "aborted"}
    /\ pc' = "idle"
    /\ command' = "none"
    /\ metadata' = NoStore
    /\ results' = <<>>
    /\ todo' = <<>>
    /\ toUpdate' = <<>>
    /\ idx' = 0
    /\ updateChoice' = "none"
    /\ updatedCount' = 0
    /\ failedCount' = 0
    /\ queue' = <<>>
    /\ stack' = <<>>
    /\ installed' = {}
    /\ pending' = NoStore
    /\ observed' = [c \in DOMAIN observed |-> NoObserved]
    /\ trail' = [c \in DOMAIN trail |-> NoTrail]
    /\ pre' = NoPre
    /\ lastFetch' = NoFetch
    /\ fetches' = <<>>
    /\ writes' = 0
    /\ UNCHANGED <<build, relations, document, charset, interrupted, nodeModules, reported, registry, files, backups, metadataFile, now, envSteps,
                   everOk>>

----------------------------------------------------------------------------
(* The add command and installComponent *)

Frame(name) == [name |-> name, at |-> "enter", i |-> 1]
Top == stack[Len(stack)]
Pop == SubSeq(stack, 1, Len(stack) - 1)
SetTop(f) == [stack EXCEPT ![Len(stack)] = f]

\* The argument lists of `add`: one or two different names the registry
\* knows.
Requests ==
    {<<c>> : c \in DOMAIN registry}
        \cup {q \in {<<c, d>> : c \in DOMAIN registry, d \in DOMAIN registry} :
                  q[1] # q[2]}

\* Mutant: the record is written without the digest of the file.
installedRecord_unhashed(h) ==
    IF build = "index" THEN Record(Undefined, now, Undefined)
    ELSE Record(Undefined, now, now)

\* The record installComponent writes: index.ts sets no lastChecked.
installedRecord(h) ==
    IF build = "index" THEN Record(h, now, Undefined) ELSE Record(h, now, now)

\* dep.split("@")[0]: the text before the first "@", which is empty for an
\* identifier that starts with "@" and the package name otherwise.
firstPart(dep) == IF dep.scoped THEN "" ELSE dep.package

\* require.resolve(request, { paths: [process.cwd()] }) returns: the request
\* names a package of the consumer's project.  The empty request throws.
resolves(request) == request \in nodeModules

\* deps.filter(dep => { try { require.resolve(...); return false } catch
\* { return true } })
filterMissing(deps) == SelectSeq(deps, LAMBDA dep : ~resolves(firstPart(dep)))

missing(name) == filterMissing(componentDependencies(name))

\* The position after the fetch of installComponent settled.
afterDownload(outcome) ==
    IF build = "index" THEN "packages"
    ELSE IF build = "packages" /\ outcome = "ok" THEN "packages"
    ELSE "return"

\* for (const comp of components) await installComponent(comp, dir, new Set(), config)
\* and, after the loop, the report "All requested components installed":
\* what the add command goes on with when a call returns and leaves the
\* call stack s.  The loop starts the next requested component with a new
\* `installed` set, or ends.
loopTurns(s) == s = <<>> /\ queue # <<>>
resumed(s) == IF loopTurns(s) THEN <<Frame(Head(queue))>> ELSE s
remaining(s) == IF loopTurns(s) THEN Tail(queue) ELSE queue
sharedSet(s, set) == IF loopTurns(s) THEN {} ELSE set
position(s) == IF s = <<>> /\ queue = <<>> THEN "done" ELSE "add"

\* main / the add action, up to the first call of installComponent.
AddCommand(req) ==
    /\ MayStart
    /\ req \in Requests
    /\ now' = now + 1
    /\ command' = "add"
    /\ queue' = Tail(req)
    /\ stack' = <<Frame(Head(req))>>
    /\ installed' = {}
    /\ pc' = "add"
    /\ pre' = [files |-> files, store |-> metadataFile, request |-> req]
    /\ lastFetch' = NoFetch
    /\ fetches' = <<>>
    /\ UNCHANGED <<build, relations, document, charset, interrupted, nodeModules, reported, writes, registry, files, backups, metadataFile, envSteps,
                   metadata, results, todo, toUpdate, idx, updateChoice, updatedCount,
                   failedCount, pending, observed, trail, everOk>>

\* Entry of installComponent, to its first await or its return.
InstallEnter ==
    /\ pc = "add"
    /\ stack # <<>>
    /\ Top.at = "enter"
    /\ IF Top.name \in installed
       THEN /\ stack' = Pop
            /\ UNCHANGED installed
       ELSE IF build = "index"
            THEN IF files[Top.name] = NoFile
                 THEN /\ stack' = SetTop([Top EXCEPT !.at = "related"])
                      /\ UNCHANGED installed
                 ELSE /\ stack' = SetTop([Top EXCEPT !.at = "packages"])
                      /\ installed' = installed \cup {Top.name}
            ELSE /\ stack' = SetTop([Top EXCEPT !.at = "download"])
                 /\ installed' = installed \cup {Top.name}
    /\ trail' = IF Top.name \notin installed /\ build = "index"
                    /\ files[Top.name] # NoFile
                 THEN [trail EXCEPT ![Top.name] = [stage |-> "exists", fetched |-> NoFile]]
                 ELSE trail
    /\ lastFetch' = NoFetch
    /\ UNCHANGED <<build, relations, document, charset, interrupted, nodeModules, reported, writes, fetches, registry, files, backups, metadataFile, now, envSteps,
                   pc, command, metadata, results, todo, toUpdate, idx, updateChoice,
                   updatedCount, failedCount, queue, pending, observed,
                   pre, everOk>>

\* componentRelations[name] || []
related(name) == IF name \in DOMAIN relations THEN relations[name] ELSE <<>>

\* index.ts: for (const dep of related) await installComponent(dep, ...)
\* A call for which the call stack has no room throws a RangeError, which
\* no frame catches: the command ends.
InstallRelated ==
    /\ pc = "add"
    /\ stack # <<>>
    /\ Top.at = "related"
    /\ IF Top.i <= Len(related(Top.name))
       THEN IF Len(stack) < MaxDepth
            THEN /\ stack' = Append(SetTop([Top EXCEPT !.i = Top.i + 1]),
                                    Frame(related(Top.name)[Top.i]))
                 /\ pc' = pc
            ELSE /\ stack' = stack
                 /\ pc' = "aborted"
       ELSE /\ stack' = SetTop([Top EXCEPT !.at = "download"])
            /\ pc' = pc
    /\ lastFetch' = NoFetch
    /\ UNCHANGED <<build, relations, document, charset, interrupted, nodeModules, reported, writes, fetches, registry, files, backups, metadataFile, now, envSteps,
                   command, metadata, results, todo, toUpdate, idx, updateChoice,
                   updatedCount, failedCount, queue, installed, pending,
                   observed, trail, pre, everOk>>

\* Mutant: the record is written outside the try block, also after a failed fetch.
savesAfterDownload_always(outcome) == build # "packages"

\* Whether the fetch step itself writes the record: index.ts and utils.ts do,
\* the packages installer writes it after the Package Dependencies.
savesAfterDownload(outcome) == outcome = "ok" /\ build # "packages"

\* History: how the fetch step of installComponent ended for a name.  The
\* packages installer has the record still to write ("downloaded").
installStage(outcome) ==
    IF outcome = "reject" THEN "install-fetch"
    ELSE IF outcome = "closeErr" THEN "install-close"
    ELSE IF build = "packages" THEN "downloaded"
    ELSE "installed"

\* downloadComponent settled; the statements up to the next await or return.
InstallDownload(outcome) ==
    /\ pc = "add"
    /\ stack # <<>>
    /\ Top.at = "download"
    /\ outcome \in downloadOutcomes(Top.name)
    /\ LET name == Top.name
           written == downloaded(files, name, outcome)
           left == IF afterDownload(outcome) = "return" THEN Pop
                   ELSE SetTop([Top EXCEPT !.at = "packages"])
       IN  /\ files' = written
           /\ installed' = sharedSet(left, IF build = "index" /\ outcome = "ok"
                                           THEN installed \cup {name} ELSE installed)
           /\ stack' = resumed(left)
           /\ queue' = remaining(left)
           /\ pc' = position(left)
           /\ fetches' = IF loopTurns(left) THEN <<>> ELSE Append(fetches, name)
           /\ pending' = IF build = "packages" /\ outcome = "ok"
                         THEN loadMetadata ELSE pending
           /\ metadataFile' =
                  IF savesAfterDownload(outcome) /\ ~storeThrows
                  THEN saveMetadata(Upsert(loadMetadata, name,
                                           installedRecord(sha256(written[name]))))
                  ELSE metadataFile
           /\ document' = IF savesAfterDownload(outcome) /\ ~storeThrows
                          THEN savedKind ELSE document
           /\ everOk' = IF savesAfterDownload(outcome) /\ ~storeThrows
                        THEN everOk \cup {name} ELSE everOk
           /\ lastFetch' = [name |-> name, outcome |-> outcome]
           /\ trail' = [trail EXCEPT
                          ![name] = [stage |-> IF savesAfterDownload(outcome)
                                                    /\ storeThrows
                                                 THEN "install-store"
                                                 ELSE installStage(outcome),
                                     fetched |-> IF outcome # "reject"
                                                 THEN registry[name] ELSE NoFile]]
    /\ UNCHANGED <<build, relations, charset, interrupted, nodeModules, reported, writes, registry, backups, now, envSteps, command,
                   metadata, results, todo, toUpdate, idx, updateChoice, updatedCount,
                   failedCount, observed, pre>>

\* The Package Dependencies: the confirm prompt (install) and execSync
\* (succeeded).  index.ts runs this outside its try block, so a failing
\* execSync ends the process; the packages installer runs it inside the try
\* block, before the record is written.
InstallPackages(install, succeeded) ==
    /\ pc = "add"
    /\ stack # <<>>
    /\ Top.at = "packages"
    /\ install \in (IF Len(missing(Top.name)) > 0 THEN BOOLEAN ELSE {FALSE})
    /\ succeeded \in (IF install THEN BOOLEAN ELSE {TRUE})
    /\ LET name == Top.name
           threw == install /\ ~succeeded
           saves == build = "packages" /\ ~threw /\ ~storeThrows
       IN  /\ metadataFile' =
                  IF saves
                  THEN saveMetadata(Upsert(pending, name,
                                           installedRecord(sha256(files[name]))))
                  ELSE metadataFile
           /\ document' = IF saves THEN savedKind ELSE document
           /\ everOk' = IF saves THEN everOk \cup {name} ELSE everOk
           /\ pc' = IF threw /\ build = "index" THEN "aborted" ELSE position(Pop)
           /\ stack' = IF threw /\ build = "index" THEN Pop ELSE resumed(Pop)
           /\ queue' = IF threw /\ build = "index" THEN queue ELSE remaining(Pop)
           /\ installed' = IF threw /\ build = "index" THEN installed
                            ELSE sharedSet(Pop, installed)
           /\ fetches' = IF threw /\ build = "index" THEN fetches
                          ELSE IF loopTurns(Pop) THEN <<>> ELSE fetches
           /\ trail' = IF threw /\ trail[name].stage \in {"installed", "downloaded"}
                        THEN [trail EXCEPT ![name].stage = "packages"]
                        ELSE IF build = "packages" /\ ~threw /\ storeThrows
                        THEN [trail EXCEPT ![name].stage = "install-store"]
                        ELSE IF saves
                        THEN [trail EXCEPT ![name].stage = "installed"]
                        ELSE trail
    /\ pending' = NoStore
    /\ lastFetch' = NoFetch
    /\ UNCHANGED <<build, relations, charset, interrupted, nodeModules, reported, writes, registry, files, backups, now, envSteps, command,
                   metadata, results, todo, toUpdate, idx, updateChoice, updatedCount,
                   failedCount, observed, pre>>

----------------------------------------------------------------------------

Next ==
    \/ \E c \in Components, x \in Contents \cup {NoFile} : Publish(c, x)
    \/ \E c \in Components, x \in Contents \cup {NoFile} : UserEdit(c, x)
    \/ UpdateCommand
    \/ \E fetched \in BOOLEAN, split \in BOOLEAN : CheckFile(fetched, split)
    \/ \E choice \in {"all", "select", "none"}, S \in SUBSET Components :
          Prompt(choice, S)
    \/ \E outcome \in {"ok", "reject", "closeErr"},
          fault \in {"none", "hash", "unlink"} : UpdateOne(outcome, fault)
    \/ \E req \in Requests : AddCommand(req)
    \/ InstallEnter
    \/ InstallRelated
    \/ \E outcome \in {"ok", "reject", "closeErr"} : InstallDownload(outcome)
    \/ \E install \in BOOLEAN, succeeded \in BOOLEAN :
          InstallPackages(install, succeeded)
    \/ Exit

Spec == Init /\ [][Next]_vars

----------------------------------------------------------------------------
(* The persisted document under other hands: between commands, and while   *)
(* the update prompt is open, the document is replaced by text that is not *)
(* a name-to-record mapping.                                               *)

Corrupt(kind) ==
    /\ EnvMayAct
    /\ kind \in Documents \ {"mapping"}
    /\ kind # document
    /\ document' = kind
    /\ metadataFile' = NoStore
    /\ envSteps' = envSteps + 1
    /\ lastFetch' = NoFetch
    /\ UNCHANGED <<build, relations, charset, interrupted, nodeModules, reported, writes,
                   fetches, registry, files, backups, now, pc, engineVars,
                   observed, trail, pre, everOk>>

CorruptNext == Next \/ \E kind \in Documents : Corrupt(kind)

CorruptSpec == Init /\ [][CorruptNext]_vars

----------------------------------------------------------------------------
(* Component sources with characters outside ASCII: the same engine over a *)
(* registry whose files hold multi-byte characters.                        *)

ChunkInit == Directory("multibyte")

ChunkSpec == ChunkInit /\ [][Next]_vars

----------------------------------------------------------------------------
(* A registry that accepts the connection and never answers.  https.get is *)
(* called without a timeout and the promise around it settles only on a    *)
(* response or on an error event: the await of the loop never returns.     *)

\* The fetch of checkForUpdates (fetchFileHash, after hashFile read the
\* file) or of updateComponents (downloadComponent, after the backup was
\* copied) never settles.
FetchHangs ==
    /\ pc \in {"check", "update"}
    /\ LET name == IF pc = "check" THEN todo[idx] ELSE toUpdate[idx]
       IN  /\ files[name] # NoFile
           /\ backups' = IF pc = "update"
                         THEN [backups EXCEPT ![name] = files[name]]
                         ELSE backups
           /\ lastFetch' = [name |-> name, outcome |-> "pending"]
    /\ pc' = "blocked"
    /\ UNCHANGED <<build, relations, document, charset, interrupted, nodeModules,
                   reported, writes, fetches, registry, files, metadataFile, now,
                   envSteps, engineVars, observed, trail, pre, everOk>>

HangNext == Next \/ FetchHangs

HangSpec == Init /\ [][HangNext]_vars

----------------------------------------------------------------------------
(* The process is killed inside the try block of updateComponents, after   *)
(* the backup was copied and before saveMetadata: nothing of the catch     *)
(* block runs, the store on disk is the one the run started with and the   *)
(* next command starts from a fresh process.                               *)

\* Where the kill falls: after fs.copyFileSync(filePath, backupPath); while
\* downloadComponent writes the file, which then holds a part of the new
\* content; after the download, the backup still there; after
\* fs.unlinkSync(backupPath).
KillPoints == {"backup", "partial", "downloaded", "unlinked"}

Kill(point) ==
    /\ pc = "update"
    /\ point \in KillPoints
    /\ LET name == toUpdate[idx]
       IN  /\ files[name] # NoFile
           /\ point # "backup" => registry[name] # NoFile
           /\ point = "partial" => fresh # {}
           /\ files' = IF point = "backup" THEN files
                       ELSE IF point = "partial"
                       THEN [files EXCEPT ![name] = CHOOSE x \in fresh : TRUE]
                       ELSE [files EXCEPT ![name] = registry[name]]
           /\ backups' = IF point = "unlinked" THEN backups
                         ELSE [backups EXCEPT ![name] = files[name]]
           /\ interrupted' = interrupted \cup {[name |-> name, env |-> envSteps]}
    /\ pc' = "idle"
    /\ command' = "none"
    /\ metadata' = NoStore
    /\ results' = <<>>
    /\ todo' = <<>>
    /\ toUpdate' = <<>>
    /\ idx' = 0
    /\ updateChoice' = "none"
    /\ updatedCount' = 0
    /\ failedCount' = 0
    /\ observed' = [c \in DOMAIN observed |-> NoObserved]
    /\ trail' = [c \in DOMAIN trail |-> NoTrail]
    /\ pre' = NoPre
    /\ lastFetch' = NoFetch
    /\ writes' = 0
    /\ UNCHANGED <<build, relations, document, charset, nodeModules, reported, fetches,
                   registry, metadataFile, now, envSteps, queue, stack, installed,
                   pending, everOk>>

CrashNext == Next \/ \E point \in KillPoints : Kill(point)

CrashSpec == Init /\ [][CrashNext]_vars

----------------------------------------------------------------------------
(* The dependency filter of installComponent on its own: applied to the    *)
(* lists a dependency table can declare, over the packages the consumer's  *)
(* project can hold.                                                       *)

RECURSIVE Lists(_)
Lists(n) ==
    IF n = 0 THEN {<<>>}
    ELSE Lists(n - 1) \cup
         {Append(q, dep) : q \in {l \in Lists(n - 1) : Len(l) = n - 1},
                           dep \in Identifiers}

\* The lists of at most MaxDeclared identifiers, none declared twice.
Declared ==
    {q \in Lists(MaxDeclared) : \A i, j \in 1..Len(q) : q[i] = q[j] => i = j}

\* The consumer installs a package.
NpmInstall(p) ==
    /\ pc = "idle"
    /\ p \in Packages \ nodeModules
    /\ nodeModules' = nodeModules \cup {p}
    /\ UNCHANGED <<build, relations, document, charset, interrupted, reported, writes,
                   fetches, registry, files, backups, metadataFile, now, envSteps,
                   pc, engineVars, observed, trail, pre, lastFetch, everOk>>

\* const missing = deps.filter(...)
ReportMissing(deps) ==
    /\ pc = "idle"
    /\ deps \in Declared
    /\ reported' = [declared |-> deps, missing |-> filterMissing(deps)]
    /\ UNCHANGED <<build, relations, document, charset, interrupted, nodeModules,
                   writes, fetches, registry, files, backups, metadataFile, now,
                   envSteps, pc, engineVars, observed, trail, pre, lastFetch, everOk>>

DependencyNext ==
    \/ \E p \in Packages : NpmInstall(p)
    \/ \E deps \in Declared : ReportMissing(deps)

DependencySpec == Init /\ [][DependencyNext]_vars

----------------------------------------------------------------------------
(* installComponent over other componentRelations tables.  The table is    *)
(* data of the build; these behaviours run the add command of each engine  *)
(* with a chain, a diamond and a cycle in place of the shipped table, on   *)
(* an empty output directory: one add command in each behaviour, the rest  *)
(* of the budget of events being spent.                                    *)

Nodes == {"a", "b", "c", "d"}

\* a requires b requires c
chainTable == [n \in Nodes |->
                  IF n = "a" THEN <<"b">> ELSE IF n = "b" THEN <<"c">> ELSE <<>>]

\* a requires b and c; b requires d; c requires d
diamondTable == [n \in Nodes |->
                    IF n = "a" THEN <<"b", "c">>
                    ELSE IF n \in {"b", "c"} THEN <<"d">> ELSE <<>>]

\* a requires b and b requires a
cycleTable == [n \in Nodes |->
                  IF n = "a" THEN <<"b">> ELSE IF n = "b" THEN <<"a">> ELSE <<>>]

Tables == {chainTable, diamondTable, cycleTable}

ResolveInit ==
    /\ build \in Builds
    /\ relations \in Tables
    /\ registry = [n \in Nodes |-> 1]
    /\ files = [n \in Nodes |-> NoFile]
    /\ backups = [n \in Nodes |-> NoFile]
    /\ metadataFile = NoStore
    /\ now = 0
    /\ envSteps = MaxEvents - 1
    /\ pc = "idle"
    /\ command = "none"
    /\ metadata = NoStore
    /\ results = <<>>
    /\ todo = <<>>
    /\ toUpdate = <<>>
    /\ idx = 0
    /\ updateChoice = "none"
    /\ updatedCount = 0
    /\ failedCount = 0
    /\ queue = <<>>
    /\ stack = <<>>
    /\ installed = {}
    /\ pending = NoStore
    /\ observed = [n \in Nodes |-> NoObserved]
    /\ trail = [n \in Nodes |-> NoTrail]
    /\ pre = NoPre
    /\ lastFetch = NoFetch
    /\ fetches = <<>>
    /\ everOk = {}
    /\ document = "mapping"
    /\ charset = "ascii"
    /\ nodeModules = {}
    /\ writes = 0
    /\ interrupted = {}
    /\ reported = NoReport

ResolveNext ==
    \/ \E req \in Requests : AddCommand(req)
    \/ InstallEnter
    \/ InstallRelated
    \/ \E outcome \in {"ok", "reject", "closeErr"} : InstallDownload(outcome)
    \/ \E install \in BOOLEAN, succeeded \in BOOLEAN :
          InstallPackages(install, succeeded)
    \/ Exit

ResolveSpec == ResolveInit /\ [][ResolveNext]_vars

----------------------------------------------------------------------------
(* Properties *)

Range(q) == {q[i] : i \in 1..Len(q)}

\* The record of a name as a sequence: empty when the store has none.
RecordOf(m, name) == IF name \in DOMAIN m THEN <<m[name]>> ELSE <<>>

\* The status the specification gives to a triple of digests.
SpecifiedStatus(currentDigest, storedDigest, remoteDigest) ==
    IF currentDigest = remoteDigest THEN "up-to-date"
    ELSE IF storedDigest # Undefined /\ storedDigest = remoteDigest THEN "modified"
    ELSE "outdated"

\* C1: every Classification Result is the status the specification gives to
\* the digests seen for that file: current = remote is up-to-date whatever
\* is stored; otherwise stored = remote is modified; otherwise (stored
\* different from remote, or absent) outdated.
C1_ClassifiedByTriple ==
    \A i \in 1..Len(results) :
        LET seen == observed[results[i].component]
        IN  results[i].status = SpecifiedStatus(seen[1], seen[2], seen[3])

\* C2: with the answer "all", no component classified modified is passed to
\* updateComponents, and its file is what it was when updateComponents
\* started.
C2_BulkUpdateSkipsModified ==
    (updateChoice = "all" /\ pc \in {"update", "done"}) =>
        \A i \in 1..Len(results) :
            results[i].status = "modified" =>
                /\ results[i].component \notin Range(toUpdate)
                /\ files[results[i].component] = pre.files[results[i].component]

\* C3: a component with a stored digest that is classified outdated has a
\* local file whose digest is the stored digest.
C3_OutdatedMatchesStored ==
    \A i \in 1..Len(results) :
        LET seen == observed[results[i].component]
        IN  (results[i].status = "outdated" /\ seen[2] # Undefined) =>
                seen[1] = seen[2]

\* The components updateComponents has finished with, by how it ended.
failedAt(stages) == {c \in Components : trail[c].stage \in stages}
updatedOnes == failedAt({"updated"})
failedOnes == failedAt({"copy", "fetch", "close", "hash", "unlink"})

C5_FailedUpdateKeepsRecord ==
    \A c \in failedAt({"fetch", "close", "hash", "unlink"}) :
        /\ RecordOf(metadata, c) = RecordOf(pre.store, c)
        /\ pc = "done" => RecordOf(metadataFile, c) = RecordOf(pre.store, c)

C7_UpdatedRecord ==
    pc = "done" =>
        \A c \in updatedOnes :
            /\ files[c] = trail[c].fetched
            /\ c \in DOMAIN metadataFile
            /\ metadataFile[c].hash = sha256(files[c])
            /\ metadataFile[c].lastChecked = now
            /\ metadataFile[c].installedAt =
                  IF installedAtOf(pre.store, c) # Undefined
                  THEN installedAtOf(pre.store, c) ELSE now

\* C7 witness: a component installed by an earlier command was updated to
\* other content and kept its installedAt.
C7_Witness ==
    /\ pc = "done"
    /\ \E c \in updatedOnes :
          /\ installedAtOf(pre.store, c) # Undefined
          /\ installedAtOf(pre.store, c) < now
          /\ metadataFile[c].installedAt = installedAtOf(pre.store, c)
          /\ files[c] # pre.files[c]

\* C8: after updateComponents returns no selected component has a backup
\* file.
C8_NoBackupLeft ==
    (pc = "done" /\ toUpdate # <<>>) =>
        \A c \in Range(toUpdate) : backups[c] = NoFile

\* C8 witness: updateComponents returned after one update that succeeded
\* and one that was rolled back.
C8_Witness ==
    /\ pc = "done"
    /\ updatedOnes # {}
    /\ failedAt({"fetch", "close", "hash", "unlink"}) # {}
    /\ \A c \in Range(toUpdate) : backups[c] = NoFile

\* C9: a step in which the registry fetch of installComponent fails leaves
\* the persisted store as it was, leaves the file of every other component
\* as it was, and the add command goes on to its next component or to its
\* end.
C9_FetchFailureIsLocal ==
    [][lastFetch'.outcome \in {"reject", "closeErr"} =>
          /\ metadataFile' = metadataFile
          /\ \A c \in Components \ {lastFetch'.name} : files'[c] = files[c]
          /\ pc' \in {"add", "done"}]_vars

\* C9 witness: the fetch of one component has just failed, and another
\* component installed by the same command has its file and its record.
C9_Witness ==
    /\ lastFetch.outcome \in {"reject", "closeErr"}
    /\ lastFetch.name \notin DOMAIN metadataFile
    /\ \E c \in Components \ {lastFetch.name} :
          /\ c \in DOMAIN metadataFile /\ c \notin DOMAIN pre.store
          /\ files[c] # NoFile

\* C10: between commands the persisted store has a record for a name
\* exactly when that component was installed or updated successfully.
C10_RecordIffInstalled ==
    pc = "idle" => DOMAIN metadataFile = everOk

\* C11: every record of the persisted store has a hash and an installedAt.
C11_RecordsComplete ==
    \A c \in DOMAIN metadataFile :
        /\ metadataFile[c].hash # Undefined
        /\ metadataFile[c].installedAt # Undefined

\* C12: a component that had its record and its unmodified file when the
\* add command started, and that installComponent has been through since,
\* has the installedAt and the file content it had.
C12_ReinstallIdempotent ==
    \A c \in DOMAIN trail :
        ( /\ trail[c].stage \in {"installed", "exists"}
          /\ c \in DOMAIN pre.store
          /\ pre.store[c].installedAt # Undefined
          /\ pre.files[c] # NoFile
          /\ pre.store[c].hash = sha256(pre.files[c]) ) =>
            /\ c \in DOMAIN metadataFile
            /\ metadataFile[c].installedAt = pre.store[c].installedAt
            /\ files[c] = pre.files[c]

\* C13: when installComponent is about to fetch a component, every
\* component it requires has been fetched in this call tree; no name is
\* fetched twice; and once the requested name is fetched, it is the last.
C13_RequiredFirst ==
    (command = "add" /\ pc = "add" /\ stack # <<>>) =>
        /\ Top.at = "download" =>
              \A b \in Range(related(Top.name)) : b \in Range(fetches)
        /\ \A i, j \in 1..Len(fetches) : fetches[i] = fetches[j] => i = j
        /\ stack[1].name \in Range(fetches) =>
              fetches[Len(fetches)] = stack[1].name

\* C16: a component that had neither a file nor a record when the add
\* command started and that installComponent reports installed has the
\* registry's content as its file and a persisted record whose hash is the
\* digest of that content.
C16_FreshInstall ==
    \A c \in DOMAIN trail :
        ( /\ trail[c].stage = "installed"
          /\ pre.files[c] = NoFile
          /\ c \notin DOMAIN pre.store ) =>
            /\ files[c] = registry[c]
            /\ files[c] # NoFile
            /\ c \in DOMAIN metadataFile
            /\ metadataFile[c].hash = sha256(registry[c])

\* C16 witness: the add command has ended after a fresh install.
C16_Witness ==
    /\ pc = "done"
    /\ \E c \in DOMAIN trail :
          /\ trail[c].stage = "installed"
          /\ pre.files[c] = NoFile
          /\ c \notin DOMAIN pre.store
          /\ files[c] = registry[c]
          /\ metadataFile[c].hash = sha256(registry[c])

\* The check pass of the update command has ended and updateComponents has
\* not started.
passEnded == command = "update" /\ pc \in {"prompt", "done"} /\ toUpdate = <<>>

\* C17: after the pass, a file whose digest was the remote digest while the
\* record held another hash is reported up-to-date and its persisted record
\* has the file's digest.
C17_SelfHeal ==
    passEnded =>
        \A i \in 1..Len(results) :
            LET c == results[i].component
                seen == observed[c]
            IN  (seen[1] = seen[3] /\ seen[2] # Undefined /\ seen[2] # seen[1]) =>
                    /\ results[i].status = "up-to-date"
                    /\ c \in DOMAIN metadataFile
                    /\ metadataFile[c].hash = seen[1]

\* C18: a component whose file was fetched and whose package-manager
\* invocation then threw has its file and a persisted record with the
\* file's digest.
C18_PackageFailureKeepsInstall ==
    \A c \in DOMAIN trail :
        trail[c].stage = "packages" =>
            /\ files[c] # NoFile
            /\ c \in DOMAIN metadataFile
            /\ metadataFile[c].hash = sha256(files[c])

\* The files of the pass the loop of checkForUpdates is through with.
passed == IF pc = "check" THEN idx - 1 ELSE Len(todo)
resultsFor(c) == {i \in 1..Len(results) : results[i].component = c}

\* C19: in an update command, a file whose remote digest could not be
\* fetched has no Classification Result, every other file the pass is
\* through with has exactly one, and the command is not aborted.
C19_SkippedFileIsLocal ==
    command = "update" =>
        /\ pc # "aborted"
        /\ \A k \in 1..passed :
              Cardinality(resultsFor(todo[k])) =
                  IF trail[todo[k]].stage = "skipped" THEN 0 ELSE 1

\* C19 witness: the first file of the pass was skipped and the second one
\* was classified after it.
C19_Witness ==
    /\ passEnded
    /\ Len(todo) = 2
    /\ trail[todo[1]].stage = "skipped"
    /\ Len(results) = 1
    /\ results[1].component = todo[2]

\* C20 as stated: after the pass, every file of the pass that has a record
\* has the time of this check as its lastChecked.
C20_EveryRecordTouched ==
    passEnded =>
        \A c \in Range(todo) :
            c \in DOMAIN metadataFile => metadataFile[c].lastChecked = now

\* C20 amended: after the pass, every file that got a Classification Result
\* and has a record has the time of this check as its lastChecked, whatever
\* its status.
C20_ClassifiedRecordTouched ==
    passEnded =>
        \A i \in 1..Len(results) :
            results[i].component \in DOMAIN metadataFile =>
                metadataFile[results[i].component].lastChecked = now

\* C20 witness: a component installed by an earlier command was classified
\* modified or outdated and its record has the time of this check.
C20_Witness ==
    /\ passEnded
    /\ \E i \in 1..Len(results) :
          /\ results[i].status # "up-to-date"
          /\ results[i].component \in DOMAIN pre.store
          /\ pre.store[results[i].component].installedAt < now
          /\ metadataFile[results[i].component].lastChecked = now

\* C14: within one installComponent call tree no component is fetched
\* twice.
C14_FetchedAtMostOnce ==
    \A i, j \in 1..Len(fetches) : fetches[i] = fetches[j] => i = j

\* C15: no component is entered again while a call for it is on the
\* current path, so the call stack never holds a name twice.
C15_CycleTerminates ==
    \A i, j \in 1..Len(stack) : stack[i].name = stack[j].name => i = j

\* The components a name requires, directly or through others: what the
\* recursion of installComponent over componentRelations walks.
RECURSIVE closure(_, _)
closure(S, k) ==
    IF k = 0 THEN S
    ELSE closure(S \cup UNION {Range(related(c)) : c \in S}, k - 1)
required(name) == closure(Range(related(name)), Cardinality(DOMAIN relations))

\* C26: when the add command has ended, every component an installComponent
\* call completed for and whose file is present has a local file for every
\* component it requires.
C26_RequiredPresent ==
    (command = "add" /\ pc = "done") =>
        \A c \in DOMAIN trail :
            (trail[c].stage # "none" /\ files[c] # NoFile) =>
                \A d \in required(c) : files[d] # NoFile

\* C28: when the add command has ended, also after a package-manager
\* failure, no requested component is left unprocessed: the list of
\* requested components and the call stack are empty.
C28_PackageFailureIsLocal ==
    (command = "add" /\ pc \in {"done", "aborted"}) =>
        queue = <<>> /\ stack = <<>>

\* C22: no step removes a record from the persisted store: a name that has
\* a record has one after every step.
C22_RecordsKept ==
    [][DOMAIN metadataFile \subseteq DOMAIN metadataFile']_vars

\* C22 witness: an update command ran to its end over a store that holds
\* the record of a component whose file the user had removed.
C22_Witness ==
    /\ command = "update"
    /\ pc = "done"
    /\ results # <<>>
    /\ \E c \in DOMAIN metadataFile : files[c] = NoFile /\ c \in everOk

\* C27: when the add command has printed "All requested components
\* installed", every requested component has a local file and a record in
\* the persisted store.
C27_ReportMeansInstalled ==
    (command = "add" /\ pc = "done") =>
        \A c \in Range(pre.request) :
            files[c] # NoFile /\ c \in DOMAIN metadataFile

\* updateComponents has returned.
updateEnded == command = "update" /\ pc = "done" /\ toUpdate # <<>>

\* C30 as stated: checkForUpdates and updateComponents have written the
\* store once when they return, and not at all while their loop runs.
C30_OneWritePerCall ==
    /\ pc \in {"check", "update"} => writes = 0
    /\ (passEnded \/ updateEnded) => writes = 1

\* C30 amended: updateComponents, and checkForUpdates over a directory that
\* holds a component file, have written the store once when they return and
\* not at all while their loop runs; checkForUpdates over a directory
\* without component files returns without a write.
C30_OneWritePerPass ==
    /\ pc \in {"check", "update"} => writes = 0
    /\ updateEnded => writes = 1
    /\ passEnded => writes = (IF todo = <<>> THEN 0 ELSE 1)

\* C30 witness: updateComponents returned after a loop over two components.
C30_Witness ==
    /\ updateEnded
    /\ Len(toUpdate) = 2
    /\ writes = 1

\* C21: no store access of install, check or update throws, whatever the
\* persisted document holds, and an install ends as it does on an empty
\* store: the component reported installed has its record persisted.
C21_CorruptStoreIsEmpty ==
    \A c \in DOMAIN trail :
        /\ trail[c].stage \notin {"install-store", "check-store", "update-store"}
        /\ trail[c].stage = "installed" =>
              /\ c \in DOMAIN metadataFile
              /\ metadataFile[c].hash = sha256(files[c])

\* C23: a file that holds the registry's content and whose record holds the
\* digest of the file, as after a successful install or update with the
\* registry unchanged, is classified up-to-date by the check, and the update
\* command does not offer it.
C23_Reentrant ==
    [][(pc = "check" /\ Len(results') > Len(results)) =>
          LET r == results'[Len(results')]
              c == r.component
          IN  ( /\ files[c] = registry[c]
                /\ storedHashOf(metadata, c) = sha256(files[c]) ) =>
                  /\ r.status = "up-to-date"
                  /\ c \notin Range(offered(results'))]_vars

\* C25: no check or update batch is left waiting on a registry fetch: a
\* fetch that does not settle is ended as a failure and the loop goes on.
C25_FetchIsBounded == pc # "blocked"

\* C24: an update command that ran to its end without a failed fetch or a
\* failed update, with the answer "all" where the prompt was shown, leaves
\* every component an earlier update run was killed on, and that nobody
\* touched since, with the registry's content as its file, a record whose
\* hash is the digest of the file, and no backup file.
C24_InterruptedUpdateRecovers ==
    ( /\ command = "update"
      /\ pc = "done"
      /\ Len(results) = Len(todo)
      /\ failedCount = 0
      /\ updateChoice = "all" \/ Len(offered(results)) = 0 ) =>
        \A k \in interrupted :
            (k.env = envSteps /\ files[k.name] # NoFile) =>
                /\ files[k.name] = registry[k.name]
                /\ storedHashOf(metadataFile, k.name) = sha256(files[k.name])
                /\ backups[k.name] = NoFile

\* C29: the name the filter resolves for a declared identifier is its
\* package, and an identifier is reported missing only when its package is
\* not among the packages of the consumer's project.
C29_MissingMeansUnresolvable ==
    [][reported' # reported =>
          /\ \A i \in 1..Len(reported'.declared) :
                firstPart(reported'.declared[i]) = reported'.declared[i].package
          /\ \A i \in 1..Len(reported'.missing) :
                reported'.missing[i].package \notin nodeModules]_vars

\* C31: the store on disk when updateComponents has returned holds, for
\* every component the check classified, the lastChecked of this command
\* and, where the check replaced the hash of an up-to-date component, that
\* hash; it holds a record for every updated component; and during an add
\* command every component installed so far in the command, and every
\* component that had a record when the command started, has a record.
C31_NoWriteLost ==
    /\ updateEnded =>
          /\ \A i \in 1..Len(results) :
                LET c == results[i].component
                IN  c \in DOMAIN metadataFile =>
                        /\ metadataFile[c].lastChecked = now
                        /\ ( /\ results[i].status = "up-to-date"
                             /\ usesUpdateModule ) =>
                               metadataFile[c].hash = observed[c][1]
          /\ updatedOnes \subseteq DOMAIN metadataFile
    /\ command = "add" =>
          /\ failedAt({"installed"}) \subseteq DOMAIN metadataFile
          /\ DOMAIN pre.store \subseteq DOMAIN metadataFile

\* C31 witness: updateComponents returned after updating one component
\* while another one, classified by the check, kept its record; or an add
\* command installed two components one after the other.
C31_Witness ==
    \/ /\ updateEnded
       /\ updatedOnes # {}
       /\ \E i \in 1..Len(results) :
             /\ results[i].component \notin Range(toUpdate)
             /\ results[i].component \in DOMAIN metadataFile
    \/ /\ command = "add"
       /\ pc = "done"
       /\ Cardinality(failedAt({"installed"})) = 2

\* C32: while checkForUpdates runs, and when the update command has ended
\* with it, every component file, present or absent, is as it was when the
\* command started.
C32_CheckKeepsFiles ==
    ( /\ command = "update"
      /\ \/ pc = "check"
         \/ pc = "done" /\ toUpdate = <<>> /\ Len(offered(results)) = 0 ) =>
        files = pre.files

\* C32 witness: the command has ended with a check that classified two
\* files, one of them modified, and offered nothing to update.
C32_Witness ==
    /\ command = "update"
    /\ pc = "done"
    /\ toUpdate = <<>>
    /\ Len(offered(results)) = 0
    /\ Len(results) = 2
    /\ \E i \in 1..2 : results[i].status = "modified"

\* A store keeps what the record of c held when the command started: its
\* installedAt, and its hash unless the check saw the file's digest equal
\* the remote digest and stored that digest.
keepsRecord(m, c) ==
    /\ c \in DOMAIN m
    /\ m[c].installedAt = pre.store[c].installedAt
    /\ m[c].hash # pre.store[c].hash =>
          /\ observed[c] # NoObserved
          /\ observed[c][1] = observed[c][3]
          /\ m[c].hash = observed[c][1]

\* C33: from the start of the update command until updateComponents is
\* entered, every record the store held at the start has its installedAt,
\* and its hash unless its file was found equal to the registry's, both in
\* the store checkForUpdates works on and in the store on disk.
C33_CheckKeepsRecords ==
    (command = "update" /\ toUpdate = <<>>) =>
        \A c \in DOMAIN pre.store :
            keepsRecord(metadata, c) /\ keepsRecord(metadataFile, c)

\* C33 witness: the pass has ended over two components; it replaced the
\* hash of a record that has an installedAt, and the other component was
\* classified too.
C33_Witness ==
    /\ passEnded
    /\ Len(results) = 2
    /\ \E c \in DOMAIN pre.store :
          /\ metadataFile[c].hash # pre.store[c].hash
          /\ pre.store[c].installedAt # Undefined
          /\ resultsFor(c) # {}

\* updateComponents has been entered with a list, and is in its loop or
\* has returned.
updateEntered ==
    command = "update" /\ pc \in {"update", "done"} /\ toUpdate # <<>>

\* C34: while updateComponents runs and after it has returned, every
\* component outside the list it was called with has the file content it
\* had when the function was entered, and the same record (or absence of
\* one) in the working store and in the store on disk.
C34_UnselectedUntouched ==
    updateEntered =>
        \A c \in Components \ Range(toUpdate) :
            /\ files[c] = pre.files[c]
            /\ RecordOf(metadata, c) = RecordOf(pre.store, c)
            /\ RecordOf(metadataFile, c) = RecordOf(pre.store, c)

\* C34 witness: updateComponents has returned after it overwrote one
\* component, and a recorded component whose file differs from the
\* registry's was not in the list.
C34_Witness ==
    /\ updateEnded
    /\ updatedOnes # {}
    /\ \E c \in Components \ Range(toUpdate) :
          /\ files[c] # NoFile
          /\ registry[c] # NoFile
          /\ files[c] # registry[c]
          /\ c \in DOMAIN metadataFile

\* The components the preceding check classified with one of `statuses`.
classified(statuses) ==
    {results[i].component : i \in {j \in 1..Len(results) :
                                       results[j].status \in statuses}}

\* C35: in an update command, updateComponents runs only after the answer
\* "all" or "select" with a non-empty list of components the preceding
\* check classified as outdated or modified, none of them classified as
\* up-to-date; after any other answer it has processed nothing.
C35_OnlyStaleSelected ==
    command = "update" =>
        /\ updateEntered =>
              /\ updateChoice \in {"all", "select"}
              /\ Range(toUpdate) \subseteq classified({"outdated", "modified"})
              /\ Range(toUpdate) \cap classified({"up-to-date"}) = {}
        /\ toUpdate = <<>> =>
              /\ pc # "update"
              /\ updatedCount = 0 /\ failedCount = 0
              /\ updatedOnes \cup failedOnes \cup failedAt({"update-store"}) = {}
              /\ \A c \in Components : backups[c] = NoFile

\* C35 witness: updateComponents has returned after the answer "select";
\* it overwrote a stale component while another one, classified as
\* up-to-date, was not in its list.
C35_Witness ==
    /\ updateEnded
    /\ updateChoice = "select"
    /\ updatedOnes # {}
    /\ classified({"up-to-date"}) # {}

\* The components of the list whose iteration has ended.
processed == {toUpdate[i] : i \in 1..(idx - 1)}

====
